---- MODULE Spec2Model ----
(***************************************************************************)
(* Channels DVR support library (CDVR_Support.py): the Program class, its  *)
(* classification predicates and the library matchers built on the         *)
(* ChannelsDVRServer look-ups; and the manual recording form               *)
(* (manual_recording_gui.py): its Connect and Schedule buttons.            *)
(*                                                                         *)
(* Representation of Python values:                                        *)
(*   - a JSON object (dict) is a function whose DOMAIN is the set of keys  *)
(*     that are present, so a missing key is really missing;               *)
(*   - a JSON list is a sequence;                                          *)
(*   - a string that the code lower-cases or compares is a sequence of     *)
(*     one-character strings, so that str.lower() is computed;             *)
(*   - category tags are only tested with "in", they are atomic strings;   *)
(*   - "x or None" is an option: None is << >>, a value v is <<v>>;        *)
(*   - a call that can raise yields [exc |-> name, val |-> value] with     *)
(*     exc = "" for a normal return.                                       *)
(***************************************************************************)
EXTENDS Integers, Sequences, FiniteSets, TLC

VARIABLES library, self, library_files, op, result, requests

\* the ChannelsDVRServer object "dvr", the server's job list and the list
\* the last call returned
VARIABLES ip_address, port_number, url, jobs, returned

\* the form: the module globals, the settings file, the state of the
\* controls that Connect enables, the status label, the Schedule button and
\* the last Connect attempt with the server's answer
VARIABLES server_ip_address, server_port_number, settings_file, controls,
          status_label, schedule_text, schedule_command, last_connect

\* the dictionary "widgets" of the form: the entries of the program and the
\* drop-down selectors of the start, the duration and the stop
VARIABLES widgets

server == <<ip_address, port_number, url, jobs, returned>>

form == <<server_ip_address, server_port_number, settings_file, controls,
          status_label, schedule_text, schedule_command, last_connect,
          widgets>>

vars == <<library, self, library_files, op, result, requests, server, form>>

----------------------------------------------------------------------------
(* Python helpers *)

None == << >>

Some(v) == <<v>>

\* dict.get(k, None)
Get(d, k) == IF k \in DOMAIN d THEN Some(d[k]) ELSE None

\* bool(x) of an optional str / list / dict: None and the empty value are falsy
Truthy(o) == o # None /\ o[1] # << >>

\* x in list, for an optional x (None is never an element of a JSON list here)
Contains(list, o) == o # None /\ \E i \in 1..Len(list) : list[i] = o[1]

\* tag in categories
HasTag(categories, tag) == \E i \in 1..Len(categories) : categories[i] = tag

Ret(v) == [exc |-> "", val |-> v]

Raise(e) == [exc |-> e, val |-> None]

PyBool(b) == IF b THEN "True" ELSE "False"

Min(S) == CHOOSE x \in S : \A y \in S : x <= y

\* the first element of list at one of the positions idx, or None: a loop
\* that breaks at the first element it accepts
First(list, idx) == IF idx = {} THEN None ELSE Some(list[Min(idx)])

LowerChar(c) ==
    CASE c = "A" -> "a" [] c = "B" -> "b" [] c = "C" -> "c" [] c = "D" -> "d"
      [] c = "E" -> "e" [] c = "F" -> "f" [] c = "G" -> "g" [] c = "H" -> "h"
      [] c = "I" -> "i" [] c = "J" -> "j" [] c = "K" -> "k" [] c = "L" -> "l"
      [] c = "M" -> "m" [] c = "N" -> "n" [] c = "O" -> "o" [] c = "P" -> "p"
      [] c = "Q" -> "q" [] c = "R" -> "r" [] c = "S" -> "s" [] c = "T" -> "t"
      [] c = "U" -> "u" [] c = "V" -> "v" [] c = "W" -> "w" [] c = "X" -> "x"
      [] c = "Y" -> "y" [] c = "Z" -> "z" [] OTHER -> c

\* str.lower()
Lower(s) == [i \in 1..Len(s) |-> LowerChar(s[i])]

----------------------------------------------------------------------------
(* ChannelsDVRServer: library look-ups.  library is what GET /dvr/files    *)
(* returns; library_files is the optional snapshot argument.               *)

\* the list the look-ups iterate over: "if not library_files: fetch"
files_to_scan(lib, lf) == IF Truthy(lf) THEN lf[1] ELSE lib

\* the requests a look-up issues
files_request(lf) == IF Truthy(lf) THEN << >> ELSE <<"GET /dvr/files">>

get_all_movies_from_library(lib, lf) ==
    LET IsMovie(f) ==
            LET categories == Get(f.Airing, "Categories")
            IN  Truthy(categories) /\ HasTag(categories[1], "Movie")
    IN  SelectSeq(files_to_scan(lib, lf), IsMovie)

get_all_series_from_library(lib, lf) ==
    LET IsSeries(f) ==
            LET categories == Get(f.Airing, "Categories")
            IN  Truthy(categories) /\ HasTag(categories[1], "Series")
    IN  SelectSeq(files_to_scan(lib, lf), IsSeries)

\* the title get_one_movie_from_library compares: Raw.title, or None
library_movie_title(m) ==
    LET raw_data == Get(m.Airing, "Raw")
    IN  IF Truthy(raw_data) THEN Get(raw_data[1], "title") ELSE None

get_one_movie_from_library(movie_title, lib, lf) ==
    LET all_movies == get_all_movies_from_library(lib, lf)
        same       == {i \in 1..Len(all_movies) :
                          library_movie_title(all_movies[i]) = movie_title}
    IN  First(all_movies, same)

\* the title get_all_episodes_of_one_series_from_library compares
library_series_title(s) ==
    LET raw_data == Get(s.Airing, "Raw")
    IN  IF Truthy(raw_data)
        THEN LET program_info == Get(raw_data[1], "program")
             IN  IF ~Truthy(program_info)
                 THEN IF "Title" \in DOMAIN s.Airing
                      THEN Ret(Some(s.Airing.Title)) ELSE Raise("KeyError")
                 ELSE IF "title" \in DOMAIN program_info[1]
                      THEN Ret(Some(program_info[1].title)) ELSE Raise("KeyError")
        ELSE IF "Title" \in DOMAIN s.Airing
             THEN Ret(Some(s.Airing.Title)) ELSE Raise("KeyError")

get_all_episodes_of_one_series_from_library(series_title, lib, lf) ==
    LET all_series == get_all_series_from_library(lib, lf)
        Same(s)    == library_series_title(s).val = series_title
    IN  IF \E i \in 1..Len(all_series) : library_series_title(all_series[i]).exc # ""
        THEN Raise("KeyError")
        ELSE Ret(SelectSeq(all_series, Same))

get_one_episode_of_one_series_from_library(series_title, season_number, episode_number, lib, lf) ==
    LET all_episodes == get_all_episodes_of_one_series_from_library(series_title, lib, lf)
        Same(e) == /\ Get(e.Airing, "SeasonNumber") = season_number
                   /\ Get(e.Airing, "EpisodeNumber") = episode_number
    IN  IF all_episodes.exc # "" THEN all_episodes
        ELSE Ret(First(all_episodes.val,
                       {i \in 1..Len(all_episodes.val) : Same(all_episodes.val[i])}))

----------------------------------------------------------------------------
(* Program *)

_get_director_from_json(program) ==
    LET directors == Get(program.Airing, "Directors")
    IN  IF Truthy(directors) THEN Some(directors[1][1]) ELSE None

\* _get_title preferring the display title when there is one
_get_title_display_first(program) ==
    IF "Title" \in DOMAIN program.Airing
    THEN Ret(Some(program.Airing.Title))
    ELSE LET raw_info == Get(program.Airing, "Raw")
         IN  IF Truthy(raw_info) /\ Truthy(Get(raw_info[1], "program"))
                /\ "title" \in DOMAIN raw_info[1].program
             THEN Ret(Some(raw_info[1].program.title)) ELSE Raise("KeyError")

_get_title(program) ==
    LET raw_info == Get(program.Airing, "Raw")
    IN  IF ~Truthy(raw_info)
        THEN IF "Title" \in DOMAIN program.Airing
             THEN Ret(Some(program.Airing.Title)) ELSE Raise("KeyError")
        ELSE LET program_info == Get(raw_info[1], "program")
             IN  IF ~Truthy(program_info)
                 THEN IF "Title" \in DOMAIN program.Airing
                      THEN Ret(Some(program.Airing.Title)) ELSE Raise("KeyError")
                 ELSE IF "title" \in DOMAIN program_info[1]
                      THEN Ret(Some(program_info[1].title)) ELSE Raise("KeyError")

\* Program.__init__: the object, or the exception the constructor raises
Program(program_json) ==
    LET title == _get_title(program_json)
    IN  IF title.exc # "" THEN title
        ELSE Ret([program        |-> program_json,
                  director       |-> _get_director_from_json(program_json),
                  episode_number |-> Get(program_json.Airing, "EpisodeNumber"),
                  episode_title  |-> Get(program_json.Airing, "EpisodeTitle"),
                  release_year   |-> Get(program_json.Airing, "ReleaseYear"),
                  season_number  |-> Get(program_json.Airing, "SeasonNumber"),
                  title          |-> title.val])

\* sub in s, for two strings
InStr(sub, s) ==
    \E i \in 0..(Len(s) - Len(sub)) : \A j \in 1..Len(sub) : s[i + j] = sub[j]

\* the marker of a manual recording in an ID
ManualMarker == <<"-", "c", "h">>

\* is_a_manual_recording looking at the ID only
is_a_manual_recording_id_only(p) ==
    IF "ID" \notin DOMAIN p.program THEN "KeyError"
    ELSE PyBool(InStr(ManualMarker, p.program.ID))

\* "True", "False" or the name of the exception raised
is_a_manual_recording(p) ==
    IF "ID" \notin DOMAIN p.program THEN "KeyError"
    ELSE LET scheduled_manually == InStr(ManualMarker, p.program.ID)
             job_id == Get(p.program, "JobID")
         IN  IF ~scheduled_manually
             THEN IF Truthy(job_id) THEN PyBool(InStr(ManualMarker, job_id[1]))
                  ELSE PyBool(scheduled_manually)
             ELSE PyBool(scheduled_manually)

\* "True", "False" or the name of the exception raised
is_recording_in_progress(p) ==
    IF "FileID" \notin DOMAIN p.program THEN "KeyError"
    ELSE LET file_id == Some(p.program.FileID)
         IN  PyBool(Truthy(file_id))

\* is_a_movie requiring "Movie" to be the only tag
is_a_movie_only_tag(p) ==
    LET categories == Get(p.program.Airing, "Categories")
    IN  IF Truthy(categories) THEN categories[1] = <<"Movie">> ELSE FALSE

is_a_movie(p) ==
    LET categories == Get(p.program.Airing, "Categories")
    IN  IF Truthy(categories) THEN HasTag(categories[1], "Movie") ELSE FALSE

\* is_an_episode testing the numbers for truth instead of "!= None"
is_an_episode_nonzero(p) ==
    LET categories == Get(p.program.Airing, "Categories")
    IN  IF Truthy(categories)
        THEN \/ HasTag(categories[1], "Episode")
             \/ /\ HasTag(categories[1], "Series")
                /\ p.season_number # None /\ p.season_number # Some(0)
                /\ p.episode_number # None /\ p.episode_number # Some(0)
        ELSE Truthy(Get(p.program.Airing, "EpisodeTitle"))

is_an_episode(p) ==
    LET categories == Get(p.program.Airing, "Categories")
    IN  IF Truthy(categories)
        THEN \/ HasTag(categories[1], "Episode")
             \/ /\ HasTag(categories[1], "Series")
                /\ p.season_number # None
                /\ p.episode_number # None
        ELSE Truthy(Get(p.program.Airing, "EpisodeTitle"))

\* get_program_type with the episode check last
get_program_type_episode_last(p) ==
    LET program_type == IF is_a_movie(p) THEN "Movie" ELSE "None"
    IN  IF is_an_episode(p) THEN "Episode" ELSE program_type

get_program_type(p) ==
    LET program_type == IF is_an_episode(p) THEN "Episode" ELSE "None"
    IN  IF is_a_movie(p) THEN "Movie" ELSE program_type

\* is_movie_in_library without the director condition
is_movie_in_library_year_only(p, lib, lf) ==
    LET library_movie == get_one_movie_from_library(p.title, lib, lf)
    IN  IF library_movie = None THEN "False"
        ELSE LET airing == library_movie[1].Airing
             IN  IF "ReleaseYear" \notin DOMAIN airing THEN "KeyError"
                 ELSE IF "Directors" \notin DOMAIN airing THEN "KeyError"
                 ELSE PyBool(Some(airing.ReleaseYear) = p.release_year)

\* "True", "False" or the name of the exception raised
is_movie_in_library(p, lib, lf) ==
    LET library_movie == get_one_movie_from_library(p.title, lib, lf)
    IN  IF library_movie = None THEN "False"
        ELSE LET airing == library_movie[1].Airing
             IN  IF "ReleaseYear" \notin DOMAIN airing THEN "KeyError"
                 ELSE IF "Directors" \notin DOMAIN airing THEN "KeyError"
                 ELSE PyBool(/\ Some(airing.ReleaseYear) = p.release_year
                             /\ Contains(airing.Directors, p.director))

\* is_episode_in_library comparing the episode titles as they are
is_episode_in_library_exact(p, lib, lf) ==
    LET found == get_one_episode_of_one_series_from_library(
                     p.title, p.season_number, p.episode_number, lib, lf)
    IN  IF found.exc # "" THEN found.exc
        ELSE IF found.val = None THEN "False"
        ELSE LET library_episode == Program(found.val[1]).val
             IN  IF ~Truthy(library_episode.episode_title) THEN "False"
                 ELSE IF p.episode_title = None THEN "RuntimeError"
                 ELSE PyBool(library_episode.episode_title[1] = p.episode_title[1])

\* is_episode_in_library without the guard on the library episode's title
is_episode_in_library_unguarded(p, lib, lf) ==
    LET found == get_one_episode_of_one_series_from_library(
                     p.title, p.season_number, p.episode_number, lib, lf)
    IN  IF found.exc # "" THEN found.exc
        ELSE IF found.val = None THEN "False"
        ELSE LET library_episode == Program(found.val[1]).val
             IN  IF library_episode.episode_title = None THEN "RuntimeError"
                 ELSE IF p.episode_title = None THEN "RuntimeError"
                 ELSE PyBool(Lower(library_episode.episode_title[1])
                             = Lower(p.episode_title[1]))

is_episode_in_library(p, lib, lf) ==
    LET found == get_one_episode_of_one_series_from_library(
                     p.title, p.season_number, p.episode_number, lib, lf)
    IN  IF found.exc # "" THEN found.exc
        ELSE IF found.val = None THEN "False"
        ELSE LET library_episode == Program(found.val[1]).val
             IN  IF ~Truthy(library_episode.episode_title) THEN "False"
                 ELSE IF p.episode_title = None THEN "RuntimeError"
                 ELSE PyBool(Lower(library_episode.episode_title[1])
                             = Lower(p.episode_title[1]))

\* the requests is_in_library issues, in order
is_in_library_requests(p, lib, lf) ==
    LET movie == IF is_a_movie(p) THEN files_request(lf) ELSE << >>
        raised == is_a_movie(p) /\ is_movie_in_library(p, lib, lf) \notin {"True", "False"}
    IN  IF is_an_episode(p) /\ ~raised THEN movie \o files_request(lf) ELSE movie

\* is_in_library choosing one matcher by get_program_type
is_in_library_by_type(p, lib, lf) ==
    IF get_program_type(p) = "Movie" THEN is_movie_in_library(p, lib, lf)
    ELSE IF get_program_type(p) = "Episode" THEN is_episode_in_library(p, lib, lf)
    ELSE "False"

is_in_library(p, lib, lf) ==
    LET movie   == IF is_a_movie(p) THEN is_movie_in_library(p, lib, lf) ELSE "False"
        episode == IF is_an_episode(p) THEN is_episode_in_library(p, lib, lf) ELSE "False"
    IN  IF movie \notin {"True", "False"} THEN movie
        ELSE IF episode \notin {"True", "False"} THEN episode
        ELSE PyBool(movie = "True" \/ episode = "True")

----------------------------------------------------------------------------
(* Operations.  library is the server's library (the answer to GET         *)
(* /dvr/files), self the Program the methods are called on (None before    *)
(* one is constructed or when the constructor raised), library_files the   *)
(* argument of the last call, op / result / requests the last call, what   *)
(* it returned or raised, and the HTTP requests it issued.                 *)

\* Program(program_json)
NewProgram(Records) ==
    \E program_json \in Records :
        LET p == Program(program_json)
        IN  /\ self' = IF p.exc = "" THEN Some(p.val) ELSE None
            /\ op' = "__init__"
            /\ result' = IF p.exc = "" THEN "None" ELSE p.exc
            /\ library_files' = None
            /\ requests' = << >>
            /\ UNCHANGED <<library, server, form>>

\* a method without arguments that issues no request
Call(name, value) ==
    /\ self # None
    /\ op' = name
    /\ result' = value
    /\ library_files' = None
    /\ requests' = << >>
    /\ UNCHANGED <<library, self, server, form>>

Do_is_a_movie == Call("is_a_movie", PyBool(is_a_movie(self[1])))

Do_is_an_episode == Call("is_an_episode", PyBool(is_an_episode(self[1])))

Do_get_program_type == Call("get_program_type", get_program_type(self[1]))

Do_is_a_manual_recording ==
    Call("is_a_manual_recording", is_a_manual_recording(self[1]))

Do_is_recording_in_progress ==
    Call("is_recording_in_progress", is_recording_in_progress(self[1]))

\* self.is_movie_in_library(library_files)
Do_is_movie_in_library(Snapshots) ==
    /\ self # None
    /\ \E lf \in Snapshots :
        /\ library_files' = lf
        /\ op' = "is_movie_in_library"
        /\ result' = is_movie_in_library(self[1], library, lf)
        /\ requests' = files_request(lf)
    /\ UNCHANGED <<library, self, server, form>>

\* self.is_episode_in_library(library_files)
Do_is_episode_in_library(Snapshots) ==
    /\ self # None
    /\ \E lf \in Snapshots :
        /\ library_files' = lf
        /\ op' = "is_episode_in_library"
        /\ result' = is_episode_in_library(self[1], library, lf)
        /\ requests' = files_request(lf)
    /\ UNCHANGED <<library, self, server, form>>

\* self.is_in_library(library_files)
Do_is_in_library(Snapshots) ==
    /\ self # None
    /\ \E lf \in Snapshots :
        /\ library_files' = lf
        /\ op' = "is_in_library"
        /\ result' = is_in_library(self[1], library, lf)
        /\ requests' = is_in_library_requests(self[1], library, lf)
    /\ UNCHANGED <<library, self, server, form>>

LOOPBACK_ADDRESS == "127.0.0.1"

DEFAULT_PORT_NUMBER == "8089"

\* f'http://{ip}:{port}', kept as its parts
Url(ip, port) == <<"http://", ip, ":", port>>

\* int(s) for a string of decimal digits
Digit(c) ==
    CASE c = "0" -> 0 [] c = "1" -> 1 [] c = "2" -> 2 [] c = "3" -> 3 [] c = "4" -> 4
      [] c = "5" -> 5 [] c = "6" -> 6 [] c = "7" -> 7 [] c = "8" -> 8 [] c = "9" -> 9

RECURSIVE ParseInt(_)
ParseInt(s) ==
    IF Len(s) = 0 THEN 0
    ELSE 10 * ParseInt(SubSeq(s, 1, Len(s) - 1)) + Digit(s[Len(s)])

\* the channels of the providers of devices, in the order of the loops
RECURSIVE channels_of(_)
channels_of(devices) ==
    IF devices = << >> THEN << >>
    ELSE LET provider == devices[1]
         IN  [i \in 1..Len(provider.Channels) |->
                 [number |-> ParseInt(provider.Channels[i].GuideNumber),
                  name   |-> <<provider.Channels[i].GuideName, " (",
                               provider.DeviceID, ")">>]]
             \o channels_of(Tail(devices))

\* the dictionary a sequence of assignments d[key] = value leaves
RECURSIVE dict_of(_)
dict_of(items) ==
    IF items = << >> THEN << >>
    ELSE (items[Len(items)].key :> items[Len(items)].value)
         @@ dict_of(SubSeq(items, 1, Len(items) - 1))

\* what get_channels returns for the answer devices
all_channels(devices) ==
    LET channels == channels_of(devices)
    IN  [numbers |-> dict_of([i \in 1..Len(channels) |->
                        [key |-> channels[i].number, value |-> channels[i].name]]),
         names   |-> dict_of([i \in 1..Len(channels) |->
                        [key |-> channels[i].name, value |-> channels[i].number]])]

\* the jobs that are not skipped, or KeyError at a job without "Skipped"
non_skipped(job_list) ==
    IF \E i \in 1..Len(job_list) : "Skipped" \notin DOMAIN job_list[i]
    THEN Raise("KeyError")
    ELSE LET NotSkipped(job) == ~job.Skipped
         IN  Ret(SelectSeq(job_list, NotSkipped))

\* a call on dvr that changes or reads its attributes only
ServerCall(name) ==
    /\ op' = name
    /\ result' = "None"
    /\ UNCHANGED <<library, self, library_files, jobs, form>>

set_ip_address(Addresses) ==
    \E ip \in Addresses :
        /\ ip_address' = ip
        /\ ServerCall("set_ip_address")
        /\ requests' = << >>
        /\ UNCHANGED <<port_number, url, returned>>

set_port_number(Ports) ==
    \E port \in Ports :
        /\ port_number' = port
        /\ ServerCall("set_port_number")
        /\ requests' = << >>
        /\ UNCHANGED <<ip_address, url, returned>>

get_url ==
    /\ ServerCall("get_url")
    /\ returned' = url
    /\ requests' = << >>
    /\ UNCHANGED <<ip_address, port_number, url>>

\* the server answers the request for /devices with devices
get_channels(Answers) ==
    \E devices \in Answers :
        /\ ServerCall("get_channels")
        /\ requests' = <<[method |-> "GET",
                          url |-> Url(ip_address, port_number) \o <<"/devices">>]>>
        /\ returned' = all_channels(devices)
        /\ UNCHANGED <<ip_address, port_number, url>>

get_all_scheduled_recordings ==
    /\ ServerCall("get_all_scheduled_recordings")
    /\ requests' = <<[method |-> "GET", url |-> url \o <<"/dvr/jobs">>]>>
    /\ returned' = jobs
    /\ UNCHANGED <<ip_address, port_number, url>>

get_non_skipped_scheduled_recordings ==
    /\ op' = "get_non_skipped_scheduled_recordings"
    /\ requests' = <<[method |-> "GET", url |-> url \o <<"/dvr/jobs">>]>>
    /\ result' = IF non_skipped(jobs).exc = "" THEN "None" ELSE non_skipped(jobs).exc
    /\ returned' = non_skipped(jobs).val
    /\ UNCHANGED <<library, self, library_files, jobs, form>>
    /\ UNCHANGED <<ip_address, port_number, url>>

\* ChannelsDVRServer() with the default arguments; the server has no job
ServerStart ==
    /\ ip_address = LOOPBACK_ADDRESS
    /\ port_number = DEFAULT_PORT_NUMBER
    /\ url = Url(ip_address, port_number)
    /\ jobs = << >>
    /\ returned = << >>

\* the form's module before start_main_menu(): no settings read, no window
FormStart ==
    /\ server_ip_address = None
    /\ server_port_number = None
    /\ settings_file = None
    /\ controls = "disable"
    /\ status_label = "No Connection"
    /\ schedule_text = "Schedule Manual Recording"
    /\ schedule_command = "schedule_recording"
    /\ last_connect = None
    /\ widgets = << >>

\* the state after "dvr = ChannelsDVRServer()", with the server holding lib
Start(ServerLibraries) ==
    /\ ServerStart
    /\ FormStart
    /\ library \in ServerLibraries
    /\ self = None
    /\ library_files = None
    /\ op = "init"
    /\ result = "None"
    /\ requests = << >>

----------------------------------------------------------------------------
(* Inputs *)

MaxLib == 2

\* the lists of at most n elements of S
Lists(S, n) == UNION {[1..k -> S] : k \in 0..n}

\* the values of an optional argument: None or a list
OptionalLists(S, n) == {None} \cup {Some(l) : l \in Lists(S, n)}

\* the dicts that hold key k with one of the values, or do not hold it
Optional(k, values) == {<< >>} \cup {k :> v : v \in values}

Dune == <<"D", "u", "n", "e">>
DUNE == <<"D", "U", "N", "E">>
Heat == <<"H", "e", "a", "t">>
Lynch == <<"L", "y">>
Villeneuve == <<"V", "i">>
Show == <<"S", "h">>
SHOW == <<"S", "H">>
Finale == <<"F", "i", "n">>
FINALE == <<"F", "I", "N">>
Pilot == <<"P", "i">>

File(airing) == [Airing |-> airing]

----------------------------------------------------------------------------
(* The movie matcher *)

MovieRaws == { << >>, "Raw" :> [title |-> Dune] }

MovieYearsAndDirectors ==
    { ("ReleaseYear" :> 1984) @@ ("Directors" :> <<Villeneuve, Lynch>>),
      ("ReleaseYear" :> 2021) @@ ("Directors" :> <<Villeneuve>>),
      ("Directors" :> <<Lynch>>),
      ("ReleaseYear" :> 1984) }

\* library files categorised as movies
MovieFiles ==
    { File(("Categories" :> <<"Movie">>) @@ ("Title" :> Dune) @@ raw @@ yd) :
        raw \in MovieRaws, yd \in MovieYearsAndDirectors }

\* the records a Program is constructed from: the library files themselves,
\* guide entries without provider metadata, and one with a program object
MovieCandidates ==
    MovieFiles
    \cup { File(("Categories" :> <<"Movie">>) @@ ("Title" :> t) @@ y @@ d) :
             t \in {Dune, DUNE},
             y \in Optional("ReleaseYear", {1984}),
             d \in Optional("Directors", {<<Lynch>>}) }
    \cup { File(("Categories" :> <<"Movie">>) @@ ("Title" :> Heat)
                @@ ("Raw" :> [program |-> [title |-> Dune]])
                @@ ("ReleaseYear" :> 2021) @@ ("Directors" :> <<Villeneuve>>)) }

MovieSnapshots == OptionalLists(MovieFiles, MaxLib)

MovieServerLibraries ==
    { << >>,
      << File(("Categories" :> <<"Movie">>) @@ ("Title" :> Dune)
              @@ ("Raw" :> [title |-> Dune])
              @@ ("ReleaseYear" :> 1984) @@ ("Directors" :> <<Lynch>>)) >> }

InitMovie == Start(MovieServerLibraries)

NextMovie ==
    \/ NewProgram(MovieCandidates)
    \/ Do_is_movie_in_library(MovieSnapshots)

SpecMovie == InitMovie /\ [][NextMovie]_vars

\* the files the last call looked through: the snapshot when one with
\* entries was supplied, otherwise the server's library
TheLibrary ==
    IF library_files # None /\ library_files[1] # << >>
    THEN library_files[1] ELSE library

\* the files of TheLibrary that are categorised as movies
TheMovies ==
    LET IsMovie(f) == /\ "Categories" \in DOMAIN f.Airing
                      /\ \E i \in 1..Len(f.Airing.Categories) :
                            f.Airing.Categories[i] = "Movie"
    IN  {TheLibrary[i] : i \in {j \in 1..Len(TheLibrary) : IsMovie(TheLibrary[j])}}

\* the title under which a library movie is looked up
MovieEntryTitle(m) ==
    IF "Raw" \in DOMAIN m.Airing /\ "title" \in DOMAIN m.Airing.Raw
    THEN Some(m.Airing.Raw.title) ELSE None

MovieEntryHasYear(m, y) ==
    "ReleaseYear" \in DOMAIN m.Airing /\ Some(m.Airing.ReleaseYear) = y

MovieEntryHasDirector(m, d) ==
    /\ "Directors" \in DOMAIN m.Airing
    /\ d # None
    /\ \E i \in 1..Len(m.Airing.Directors) : m.Airing.Directors[i] = d[1]

\* the candidate with one of its three identity fields changed
OtherTitles == {Some(Dune), Some(DUNE), Some(Heat)}
OtherYears == {Some(1984), Some(2021), Some(1999)}
OtherDirectors == {Some(Lynch), Some(Villeneuve), Some(<<"S", "c">>)}

\* C2: is_movie_in_library returns True only if some movie of the library
\* has exactly the candidate's title (the title the movie is looked up
\* under, compared case-sensitively), the candidate's release year and the
\* candidate's director among its directors; and from a match, changing the
\* candidate's title, release year or director alone to a value that no
\* movie of the library has makes the result False.
C2_MovieMatchNeedsAllThree ==
    (op = "is_movie_in_library" /\ result = "True") =>
        /\ \E m \in TheMovies :
              /\ MovieEntryTitle(m) = self[1].title
              /\ MovieEntryHasYear(m, self[1].release_year)
              /\ MovieEntryHasDirector(m, self[1].director)
        /\ \A t \in OtherTitles :
              (\A m \in TheMovies : MovieEntryTitle(m) # t) =>
                 is_movie_in_library([self[1] EXCEPT !.title = t],
                                     library, library_files) = "False"
        /\ \A y \in OtherYears :
              (\A m \in TheMovies : ~MovieEntryHasYear(m, y)) =>
                 is_movie_in_library([self[1] EXCEPT !.release_year = y],
                                     library, library_files) = "False"
        /\ \A d \in OtherDirectors :
              (\A m \in TheMovies : ~MovieEntryHasDirector(m, d)) =>
                 is_movie_in_library([self[1] EXCEPT !.director = d],
                                     library, library_files) = "False"

\* a match found in a snapshot of two movies, the second being the match
C2_Witness ==
    /\ op = "is_movie_in_library" /\ result = "True"
    /\ library_files # None /\ Len(library_files[1]) = 2
    /\ MovieEntryTitle(library_files[1][1]) # self[1].title
    /\ \E y \in OtherYears : \A m \in TheMovies : ~MovieEntryHasYear(m, y)

\* C3: when the library holds exactly one movie whose resolved title
\* (Raw.program.title when present, otherwise Airing.Title) is the
\* candidate's title, whose release year is the candidate's and whose
\* directors contain the candidate's director, is_movie_in_library returns
\* True, with or without Raw metadata on the library entry.
C3_SingleMovieMatches ==
    (/\ op = "is_movie_in_library"
     /\ Len(TheLibrary) = 1
     /\ \E m \in TheMovies :
           /\ _get_title(m).val = self[1].title
           /\ MovieEntryHasYear(m, self[1].release_year)
           /\ MovieEntryHasDirector(m, self[1].director))
    => result = "True"

\* C4: is_movie_in_library never raises on sparse records, it returns
\* False when a compared field is absent.
C4_MovieMatchNeverRaises ==
    op = "is_movie_in_library" => result \in {"True", "False"}

----------------------------------------------------------------------------
(* The episode matcher *)

EpisodeFile(categories, title, raw, season, episode, episode_title) ==
    File(("Categories" :> categories) @@ ("Title" :> title) @@ raw
         @@ ("SeasonNumber" :> season) @@ ("EpisodeNumber" :> episode)
         @@ episode_title)

SeriesTags == <<"Episode", "Series">>

\* library files that are episodes of the series "Sh"
EpisodeFiles ==
    { EpisodeFile(SeriesTags, Show, << >>, 2, 5, "EpisodeTitle" :> Finale),
      EpisodeFile(SeriesTags, Show, << >>, 2, 5, "EpisodeTitle" :> Pilot),
      EpisodeFile(SeriesTags, Show, << >>, 2, 5, << >>),
      EpisodeFile(SeriesTags, SHOW, << >>, 2, 5, "EpisodeTitle" :> Finale),
      EpisodeFile(SeriesTags, Show, << >>, 1, 5, "EpisodeTitle" :> Finale),
      EpisodeFile(SeriesTags, Show, << >>, 2, 6, "EpisodeTitle" :> Finale),
      EpisodeFile(<<"Episode">>, Show, << >>, 2, 5, "EpisodeTitle" :> Finale),
      EpisodeFile(SeriesTags, SHOW, "Raw" :> [program |-> [title |-> Show]],
                  2, 5, "EpisodeTitle" :> FINALE) }

\* the records a Program is constructed from: the library files and guide
\* entries of episode 2x05 with and without an episode title
EpisodeCandidates ==
    EpisodeFiles
    \cup { EpisodeFile(SeriesTags, Show, << >>, 2, 5, et) :
             et \in Optional("EpisodeTitle", {FINALE, << >>}) }

EpisodeSnapshots == OptionalLists(EpisodeFiles, MaxLib)

EpisodeServerLibraries ==
    { << >>,
      << EpisodeFile(SeriesTags, Show, << >>, 2, 5, "EpisodeTitle" :> Finale) >> }

InitEpisode == Start(EpisodeServerLibraries)

NextEpisode ==
    \/ NewProgram(EpisodeCandidates)
    \/ Do_is_episode_in_library(EpisodeSnapshots)

SpecEpisode == InitEpisode /\ [][NextEpisode]_vars

\* library file f is a series file with exactly the title, season number
\* and episode number of Program p
SameEpisodeNumbering(f, p) ==
    /\ "Categories" \in DOMAIN f.Airing
    /\ \E i \in 1..Len(f.Airing.Categories) : f.Airing.Categories[i] = "Series"
    /\ _get_title(f).val = p.title
    /\ Get(f.Airing, "SeasonNumber") = p.season_number
    /\ Get(f.Airing, "EpisodeNumber") = p.episode_number

\* the positions in TheLibrary of the files with self's numbering
SameNumbered == {i \in 1..Len(TheLibrary) : SameEpisodeNumbering(TheLibrary[i], self[1])}

HasEpisodeTitle(airing) ==
    "EpisodeTitle" \in DOMAIN airing /\ airing.EpisodeTitle # << >>

\* the two episode titles are equal up to letter case
SameEpisodeTitle(f, p) ==
    /\ HasEpisodeTitle(f.Airing)
    /\ HasEpisodeTitle(p.program.Airing)
    /\ Lower(f.Airing.EpisodeTitle) = Lower(p.program.Airing.EpisodeTitle)

\* C5: when several library entries share the candidate's title, season and
\* episode number, is_episode_in_library returns True if any of them has
\* the candidate's episode title (up to case), even after an earlier entry
\* with another episode title.
C5_AnySameNumberedEntryMatches ==
    (/\ op = "is_episode_in_library"
     /\ Cardinality(SameNumbered) >= 2
     /\ \A i \in SameNumbered : HasEpisodeTitle(TheLibrary[i].Airing)
     /\ \E i \in SameNumbered : SameEpisodeTitle(TheLibrary[i], self[1]))
    => result = "True"

C7_CaseInsensitiveOnEpisodeTitleOnly ==
    op = "is_episode_in_library" =>
        /\ (/\ SameNumbered # {}
            /\ \A i \in SameNumbered : SameEpisodeTitle(TheLibrary[i], self[1]))
              => result = "True"
        /\ SameNumbered = {} => result = "False"

\* True for "FIN" against the library's "Fin", next to an entry whose series
\* title differs from the candidate's only in letter case
C7_Witness ==
    /\ op = "is_episode_in_library" /\ result = "True"
    /\ library_files # None /\ Len(library_files[1]) = 2
    /\ SameNumbered = {2}
    /\ library_files[1][2].Airing.EpisodeTitle # self[1].episode_title[1]
    /\ library_files[1][1].Airing.Title # self[1].title[1]
    /\ Lower(library_files[1][1].Airing.Title) = Lower(self[1].title[1])
    /\ Get(library_files[1][1].Airing, "SeasonNumber") = self[1].season_number
    /\ Get(library_files[1][1].Airing, "EpisodeNumber") = self[1].episode_number

----------------------------------------------------------------------------
(* Classification *)

CategoryLists ==
    { << >>, <<"Movie">>, <<"Series">>, <<"Episode">>, <<"Episode", "Series">>,
      <<"Movie", "Series">>, <<"Movie", "Episode">>, <<"Sports">> }

\* records with every combination of the fields the classification reads
ClassifyRecords ==
    { File(("Title" :> Show) @@ c @@ s @@ e @@ et) :
        c  \in Optional("Categories", CategoryLists),
        s  \in Optional("SeasonNumber", {0, 2}),
        e  \in Optional("EpisodeNumber", {0, 5}),
        et \in Optional("EpisodeTitle", {Finale, << >>}) }

InitClassify == Start({<< >>})

NextClassify ==
    \/ NewProgram(ClassifyRecords)
    \/ Do_is_a_movie
    \/ Do_is_an_episode
    \/ Do_get_program_type

SpecClassify == InitClassify /\ [][NextClassify]_vars

\* the record self was constructed from
airing == self[1].program.Airing

\* categories is present: the key exists and the list has entries (an empty
\* list carries no category and counts as absent)
CategoriesPresent == "Categories" \in DOMAIN airing /\ airing.Categories # << >>

Tagged(tag) ==
    CategoriesPresent /\ \E i \in 1..Len(airing.Categories) : airing.Categories[i] = tag

\* C9: is_an_episode is True iff categories is present and contains
\* "Episode", or "Series" with season and episode number both present (0
\* counts as present); with categories absent, iff an episode title is
\* present (an empty title counts as absent).  A record with categories
\* absent and an episode title is an episode and not a movie.
C9_IsAnEpisode ==
    /\ op = "is_an_episode" =>
          (result = "True") =
             IF CategoriesPresent
             THEN \/ Tagged("Episode")
                  \/ /\ Tagged("Series")
                     /\ "SeasonNumber" \in DOMAIN airing
                     /\ "EpisodeNumber" \in DOMAIN airing
             ELSE HasEpisodeTitle(airing)
    /\ (op = "is_a_movie" /\ ~CategoriesPresent /\ HasEpisodeTitle(airing))
          => result = "False"

\* a series record without the "Episode" tag, season 0 and episode 0
C9_Witness ==
    /\ op = "is_an_episode" /\ result = "True"
    /\ Tagged("Series") /\ ~Tagged("Episode")
    /\ Get(airing, "SeasonNumber") = Some(0)
    /\ Get(airing, "EpisodeNumber") = Some(0)

\* C10: is_a_movie is True iff categories is present and contains "Movie",
\* whatever the other fields and tags of the record.
C10_IsAMovie ==
    op = "is_a_movie" => ((result = "True") = Tagged("Movie"))

\* a movie that also carries another tag, numbers and an episode title
C10_Witness ==
    /\ op = "is_a_movie" /\ result = "True"
    /\ Len(airing.Categories) = 2
    /\ "SeasonNumber" \in DOMAIN airing
    /\ "EpisodeNumber" \in DOMAIN airing
    /\ HasEpisodeTitle(airing)

----------------------------------------------------------------------------
(* is_in_library and the three matchers over one library *)

\* a movie, the same movie without directors, an episode, the same episode
\* without episode title
LibraryFiles ==
    { File(("Categories" :> <<"Movie">>) @@ ("Title" :> Dune)
           @@ ("Raw" :> [title |-> Dune])
           @@ ("ReleaseYear" :> 1984) @@ ("Directors" :> <<Lynch>>)),
      File(("Categories" :> <<"Movie">>) @@ ("Title" :> Dune)
           @@ ("Raw" :> [title |-> Dune]) @@ ("ReleaseYear" :> 1984)),
      EpisodeFile(SeriesTags, Show, << >>, 2, 5, "EpisodeTitle" :> Finale),
      EpisodeFile(SeriesTags, Show, << >>, 2, 5, << >>) }

\* guide entries: a movie or an episode (by tag or by episode title alone),
\* entries tagged as both, and entries without category
GuideEntries ==
    { File(c @@ ("Title" :> t) @@ ("ReleaseYear" :> 1984)
           @@ ("Directors" :> <<Lynch>>)
           @@ ("SeasonNumber" :> 2) @@ ("EpisodeNumber" :> 5) @@ et) :
        c  \in Optional("Categories",
                        {<<"Movie">>, SeriesTags, <<"Movie", "Episode", "Series">>}),
        t  \in {Dune, Show},
        et \in Optional("EpisodeTitle", {FINALE}) }

Candidates == LibraryFiles \cup GuideEntries

Snapshots == OptionalLists(LibraryFiles, MaxLib)

ServerLibraries ==
    { << >>,
      << File(("Categories" :> <<"Movie">>) @@ ("Title" :> Dune)
              @@ ("Raw" :> [title |-> Dune])
              @@ ("ReleaseYear" :> 1984) @@ ("Directors" :> <<Lynch>>)),
         EpisodeFile(SeriesTags, Show, << >>, 2, 5, "EpisodeTitle" :> Finale) >> }

Init == Start(ServerLibraries)

Next ==
    \/ NewProgram(Candidates)
    \/ Do_is_in_library(Snapshots)
    \/ Do_is_movie_in_library(Snapshots)
    \/ Do_is_episode_in_library(Snapshots)

Spec == Init /\ [][Next]_vars

Raised(r) == r \notin {"True", "False"}

\* C1: is_in_library dispatches on get_program_type: the movie matcher's
\* result for a Movie, the episode matcher's for an Episode, False for an
\* unclassified record; for a record that is both a movie and an episode
\* only the movie matcher decides.
C1_DispatchOnProgramType ==
    op = "is_in_library" =>
        result = CASE get_program_type(self[1]) = "Movie" ->
                        is_movie_in_library(self[1], library, library_files)
                   [] get_program_type(self[1]) = "Episode" ->
                        is_episode_in_library(self[1], library, library_files)
                   [] OTHER -> "False"

\* C1 as amended: is_in_library consults the movie matcher when is_a_movie
\* holds and then, unless that raised, the episode matcher when
\* is_an_episode holds, and returns True when one of those consulted returns
\* True.  So it is the movie matcher's result for a record that is only a
\* movie, the episode matcher's for one that is only an episode, False for
\* an unclassified one; for a record that is both, either matcher makes it
\* True and an exception of either propagates.
C1_EitherMatcher ==
    op = "is_in_library" =>
        LET p       == self[1]
            movie   == is_movie_in_library(p, library, library_files)
            episode == is_episode_in_library(p, library, library_files)
        IN  /\ (is_a_movie(p) /\ ~is_an_episode(p)) => result = movie
            /\ (~is_a_movie(p) /\ is_an_episode(p)) => result = episode
            /\ (~is_a_movie(p) /\ ~is_an_episode(p)) => result = "False"
            /\ (is_a_movie(p) /\ is_an_episode(p)) =>
                  result = IF Raised(movie) THEN movie
                           ELSE IF Raised(episode) THEN episode
                           ELSE PyBool(movie = "True" \/ episode = "True")

\* a record typed Movie that the movie matcher does not find and the
\* episode matcher finds: is_in_library returns True
C1_Witness ==
    /\ op = "is_in_library" /\ result = "True"
    /\ get_program_type(self[1]) = "Movie"
    /\ is_an_episode(self[1])
    /\ is_movie_in_library(self[1], library, library_files) = "False"

\* C8: when the caller passes library_files, an empty snapshot included, the
\* matchers issue no request for the library files.
C8_SnapshotMeansNoFetch ==
    (/\ op \in {"is_in_library", "is_movie_in_library", "is_episode_in_library"}
     /\ library_files # None)
    => requests = << >>

----------------------------------------------------------------------------
(* get_program_type *)

\* C11: get_program_type returns exactly one of Movie, Episode or None:
\* Movie whenever is_a_movie holds (also when is_an_episode holds),
\* Episode when only is_an_episode holds, None when neither holds, which
\* includes every record without categories and without episode title.
C11_ProgramType ==
    op = "get_program_type" =>
        /\ result \in {"Movie", "Episode", "None"}
        /\ (result = "Movie") = is_a_movie(self[1])
        /\ (result = "Episode") = (is_an_episode(self[1]) /\ ~is_a_movie(self[1]))
        /\ (result = "None") = (~is_an_episode(self[1]) /\ ~is_a_movie(self[1]))
        /\ (~CategoriesPresent /\ ~HasEpisodeTitle(airing)) => result = "None"

\* a record that is_a_movie and is_an_episode both accept is typed Movie
C11_Witness ==
    /\ op = "get_program_type" /\ result = "Movie"
    /\ Tagged("Movie") /\ Tagged("Episode")
    /\ is_an_episode(self[1])

----------------------------------------------------------------------------
(* Program.__init__ and the title *)

TitleRaws ==
    { << >>,
      "Raw" :> << >>,
      "Raw" :> [title |-> DUNE],
      "Raw" :> [program |-> << >>],
      "Raw" :> [program |-> [title |-> Heat]],
      "Raw" :> [title |-> DUNE, program |-> [title |-> Heat]],
      "Raw" :> [program |-> [id |-> "EP01"]] }

\* records with every combination of the fields the constructor reads
TitleRecords ==
    { File(t @@ raw @@ d @@ y @@ s @@ e @@ et) :
        t   \in Optional("Title", {Dune}),
        raw \in TitleRaws,
        d   \in Optional("Directors", {<< >>, <<Villeneuve, Lynch>>}),
        y   \in Optional("ReleaseYear", {1984}),
        s   \in Optional("SeasonNumber", {0}),
        e   \in Optional("EpisodeNumber", {5}),
        et  \in Optional("EpisodeTitle", {Finale}) }

InitTitle == Start({<< >>})

NextTitle ==
    \/ NewProgram(TitleRecords)
    \/ Do_get_program_type

SpecTitle == InitTitle /\ [][NextTitle]_vars

\* C12: the title of a Program is Airing.Raw.program.title when Airing.Raw
\* exists and contains a program object, Airing.Title when Airing.Raw
\* exists without a program object, and Airing.Title when Airing.Raw is
\* absent.
C12_TitleResolution ==
    (op = "__init__" /\ self # None) =>
        LET a == self[1].program.Airing
        IN  /\ ("Raw" \in DOMAIN a /\ "program" \in DOMAIN a.Raw
                   /\ "title" \in DOMAIN a.Raw.program)
                  => self[1].title = Some(a.Raw.program.title)
            /\ ("Raw" \in DOMAIN a /\ "program" \notin DOMAIN a.Raw)
                  => self[1].title = Some(a.Title)
            /\ "Raw" \notin DOMAIN a => self[1].title = Some(a.Title)

\* a record with a display title, Raw.title and Raw.program.title, all
\* different: the title is Raw.program.title
C12_Witness ==
    /\ op = "__init__" /\ self # None
    /\ "Title" \in DOMAIN self[1].program.Airing
    /\ "Raw" \in DOMAIN self[1].program.Airing
    /\ DOMAIN self[1].program.Airing.Raw = {"title", "program"}
    /\ self[1].title = Some(Heat)

\* C13: constructing a Program never raises because of an absent field.
C13_ConstructorNeverRaises ==
    op = "__init__" => result = "None"

----------------------------------------------------------------------------
(* Scheduled jobs: is_recording_in_progress and is_a_manual_recording *)

\* IDs: guide-scheduled, manual ("-ch" then the channel), and two that hold
\* only a part of the marker
JobIDs ==
    { <<"1", "2">>, <<"7", "-", "c", "h", "6">>, <<"-", "c">>, <<"c", "h", "-">> }

\* job records: ID is required; FileID may be absent, null / empty (both
\* are << >>) or the ID of a file; JobID may be absent, empty or an ID
JobRecords ==
    { ("ID" :> id) @@ f @@ j @@ [Airing |-> ("Title" :> Show)] :
        id \in JobIDs,
        f  \in Optional("FileID", {<< >>, <<"4", "2">>}),
        j  \in Optional("JobID", {<< >>} \cup JobIDs) }

InitJob == Start({<< >>})

NextJob ==
    \/ NewProgram(JobRecords)
    \/ Do_is_recording_in_progress
    \/ Do_is_a_manual_recording

SpecJob == InitJob /\ [][NextJob]_vars

\* C15: is_recording_in_progress is True iff FileID is non-empty and
\* non-null; a record whose FileID is absent, null or empty yields False.
C15_RecordingInProgress ==
    op = "is_recording_in_progress" =>
        result = IF /\ "FileID" \in DOMAIN self[1].program
                    /\ self[1].program.FileID # << >>
                 THEN "True" ELSE "False"

\* C16: is_a_manual_recording is True iff the ID contains "-ch" or, when it
\* does not, the record has a JobID that contains "-ch"; without JobID and
\* without the marker in the ID it is False.
C16_ManualRecording ==
    op = "is_a_manual_recording" =>
        LET record == self[1].program
        IN  /\ (result = "True") =
                  \/ InStr(ManualMarker, record.ID)
                  \/ ("JobID" \in DOMAIN record /\ InStr(ManualMarker, record.JobID))
            /\ result \in {"True", "False"}
            /\ ("JobID" \notin DOMAIN record /\ ~InStr(ManualMarker, record.ID))
                  => result = "False"

\* a file whose own ID carries no marker and whose JobID does
C16_Witness ==
    /\ op = "is_a_manual_recording" /\ result = "True"
    /\ ~InStr(ManualMarker, self[1].program.ID)
    /\ "JobID" \in DOMAIN self[1].program
    /\ Len(self[1].program.JobID) > Len(ManualMarker)

----------------------------------------------------------------------------
(* The ChannelsDVRServer object and the schedule *)

MaxJobs == 2

\* scheduled jobs, marked skipped, marked not skipped, or without the mark
Jobs ==
    { ("ID" :> id) @@ sk :
        id \in {<<"1">>, <<"2">>}, sk \in Optional("Skipped", {TRUE, FALSE}) }

Addresses == {LOOPBACK_ADDRESS, "192.168.1.20"}

Ports == {DEFAULT_PORT_NUMBER, "8090"}

\* answers to /devices: no provider, or one provider with two channels
DeviceAnswers ==
    { << >>,
      << [DeviceID |-> "TVE", Channels |->
            << [GuideNumber |-> <<"6", "0", "0", "2">>, GuideName |-> "WABC"],
               [GuideNumber |-> <<"1", "0">>, GuideName |-> "WNBC"] >>] >> }

InitServer ==
    /\ FormStart
    /\ library = << >>
    /\ self = None
    /\ library_files = None
    /\ op = "init"
    /\ result = "None"
    /\ requests = << >>
    /\ ip_address = LOOPBACK_ADDRESS
    /\ port_number = DEFAULT_PORT_NUMBER
    /\ url = Url(ip_address, port_number)
    /\ jobs \in Lists(Jobs, MaxJobs)
    /\ returned = << >>

NextServer ==
    \/ set_ip_address(Addresses)
    \/ set_port_number(Ports)
    \/ get_url
    \/ get_channels(DeviceAnswers)
    \/ get_all_scheduled_recordings
    \/ get_non_skipped_scheduled_recordings

SpecServer == InitServer /\ [][NextServer]_vars

\* C14: get_non_skipped_scheduled_recordings returns exactly the jobs of
\* the server's job list that are not marked skipped, in their order and
\* unmodified; a job without the Skipped field counts as not skipped.
C14_NonSkippedJobs ==
    op = "get_non_skipped_scheduled_recordings" =>
        LET NotMarked(job) == ~("Skipped" \in DOMAIN job /\ job.Skipped)
        IN  result = "None" /\ returned = SelectSeq(jobs, NotMarked)

\* C18: after construction and any sequence of set_ip_address and
\* set_port_number calls, url is "http://<ip_address>:<port_number>".
C18_UrlFollowsAddress ==
    url = <<"http://", ip_address, ":", port_number>>

----------------------------------------------------------------------------
(* A library entry looked up in the library that holds it *)

\* library entries: movies that carry their title as Raw.title, as
\* Raw.program.title or as Airing.Title only, and episodes with the tags of
\* a series, with the tag "Episode" alone or without categories
SelfFiles ==
    { File(("Categories" :> <<"Movie">>) @@ ("Title" :> Dune) @@ raw
           @@ ("ReleaseYear" :> 1984) @@ directors) :
        raw \in { << >>, "Raw" :> [title |-> Dune],
                  "Raw" :> [program |-> [title |-> Dune]] },
        directors \in { "Directors" :> <<Lynch>> } }
    \cup
    { File(("Categories" :> <<"Movie">>) @@ ("Title" :> Dune)
           @@ ("Raw" :> [title |-> Dune]) @@ ("ReleaseYear" :> 1984)) }
    \cup
    { File(c @@ ("Title" :> Show) @@ ("SeasonNumber" :> 2)
           @@ ("EpisodeNumber" :> 5) @@ ("EpisodeTitle" :> Finale)) :
        c \in Optional("Categories", {SeriesTags, <<"Episode">>}) }
    \cup
    { EpisodeFile(SeriesTags, Show, << >>, 2, 5, << >>) }

InitSelf == Start({<< >>})

NextSelf ==
    \/ NewProgram(SelfFiles)
    \/ Do_is_in_library(OptionalLists(SelfFiles, MaxLib))

SpecSelf == InitSelf /\ [][NextSelf]_vars

\* C17: a library entry classified Movie (release year and directors
\* present) or Episode (episode title present) is found by is_in_library in
\* the snapshot that contains just that entry.
C17_SelfMatch ==
    ( /\ op = "is_in_library"
      /\ library_files = Some(<<self[1].program>>)
      /\ \/ /\ get_program_type(self[1]) = "Movie"
            /\ self[1].release_year # None
            /\ "Directors" \in DOMAIN self[1].program.Airing
         \/ /\ get_program_type(self[1]) = "Episode"
            /\ self[1].episode_title # None )
    => result = "True"

----------------------------------------------------------------------------
(* datetime and timedelta, as the form uses them *)

is_leap(year) == year % 4 = 0 /\ (year % 100 # 0 \/ year % 400 = 0)

days_in_month(year, month) ==
    IF month = 2 THEN (IF is_leap(year) THEN 29 ELSE 28)
    ELSE IF month \in {4, 6, 9, 11} THEN 30 ELSE 31

\* the number of days of the year before the first of month
RECURSIVE days_before_month(_, _)
days_before_month(year, month) ==
    IF month = 1 THEN 0
    ELSE days_before_month(year, month - 1) + days_in_month(year, month - 1)

\* the number of days before January 1st of year
days_before_year(year) ==
    LET y == year - 1
    IN  y * 365 + y \div 4 - y \div 100 + y \div 400

\* the ordinal of a date, January 1st of year 1 being day 1
ymd2ord(year, month, day) ==
    days_before_year(year) + days_before_month(year, month) + day

\* the date of an ordinal: the year by the cycles of 400, 100 and 4 years,
\* then the month in which the remaining days fall
ord2ymd(ordinal) ==
    LET n0   == ordinal - 1
        n400 == n0 \div 146097
        r400 == n0 % 146097
        n100 == r400 \div 36524
        r100 == r400 % 36524
        n4   == r100 \div 1461
        r4   == r100 % 1461
        n1   == r4 \div 365
        n    == r4 % 365
        year == n400 * 400 + 1 + n100 * 100 + n4 * 4 + n1
    IN  IF n1 = 4 \/ n100 = 4
        THEN [year |-> year - 1, month |-> 12, day |-> 31]
        ELSE LET month == CHOOSE m \in 1..12 :
                              /\ days_before_month(year, m) <= n
                              /\ n < days_before_month(year, m)
                                     + days_in_month(year, m)
             IN  [year |-> year, month |-> month,
                  day |-> n - days_before_month(year, month) + 1]

\* datetime(year=, month=, day=, hour=, minute=, second=): the day as an
\* ordinal and the second of the day, or ValueError for a day that the
\* month does not have or a field out of range
datetime(date, time) ==
    IF /\ date.year \in 1..9999
       /\ date.month \in 1..12
       /\ date.day \in 1..days_in_month(date.year, date.month)
       /\ time.hour \in 0..23
       /\ time.minutes \in 0..59
       /\ time.seconds \in 0..59
    THEN Ret([days    |-> ymd2ord(date.year, date.month, date.day),
              seconds |-> time.hour * 3600 + time.minutes * 60 + time.seconds])
    ELSE Raise("ValueError")

\* a timedelta, normalised: 0 <= seconds < 86400, the days may be negative
timedelta(days, seconds) ==
    [days    |-> days + seconds \div 86400,
     seconds |-> seconds % 86400]

\* a - b for two datetimes
dt_sub(a, b) == timedelta(a.days - b.days, a.seconds - b.seconds)

\* dt + delta for a datetime and a timedelta
dt_add(dt, delta) ==
    LET sum == timedelta(dt.days + delta.days, dt.seconds + delta.seconds)
    IN  [days |-> sum.days, seconds |-> sum.seconds]

\* the fields of a datetime that the selectors of a date display
date_of(dt) == ord2ymd(dt.days)

\* the fields of a datetime that the selectors of a time display
time_of(dt) ==
    [hour    |-> dt.seconds \div 3600,
     minutes |-> (dt.seconds % 3600) \div 60,
     seconds |-> dt.seconds % 60]

convert_seconds_to_hms(seconds) ==
    [hour    |-> seconds \div 3600,
     minutes |-> (seconds % 3600) \div 60,
     seconds |-> (seconds % 3600) % 60]

\* (stop_dt - start_dt).seconds for the widgets w
get_duration_in_seconds(w) ==
    LET start_dt == datetime(w.start_date, w.start_time)
        stop_dt  == datetime(w.stop_date, w.stop_time)
    IN  IF start_dt.exc # "" THEN start_dt
        ELSE IF stop_dt.exc # "" THEN stop_dt
        ELSE Ret(dt_sub(stop_dt.val, start_dt.val).seconds)

\* calendar.timegm(dt.utctimetuple()) for the local time of the arguments
\* in a time zone utcoffset seconds east of UTC
convert_to_epoch_time(date, time, utcoffset) ==
    LET dt == datetime(date, time)
    IN  IF dt.exc # "" THEN dt
        ELSE Ret((dt.val.days - ymd2ord(1970, 1, 1)) * 86400
                 + dt.val.seconds - utcoffset)

\* f"{n:02d}"
Pad2(n) == IF n < 10 THEN <<"0", n>> ELSE <<n>>

\* the payload of the recording request, built from the widgets w
create_json_payload(w, utcoffset) ==
    LET duration   == get_duration_in_seconds(w)
        start_time == convert_to_epoch_time(w.start_date, w.start_time, utcoffset)
    IN  IF duration.exc # "" THEN duration
        ELSE IF start_time.exc # "" THEN start_time
        ELSE Ret([Name     |-> w.program_name,
                  Time     |-> start_time.val,
                  Duration |-> duration.val,
                  Channels |-> <<w.channel_number>>,
                  Airing   |->
                    [Source       |-> "manual",
                     Channel      |-> w.channel_number,
                     Time         |-> start_time.val,
                     Duration     |-> duration.val,
                     Title        |-> w.program_name,
                     EpisodeTitle |-> w.episode_name,
                     Summary      |->
                       <<"Manual recording of channel ", w.channel_number,
                         " on ", w.start_date.year, "-">>
                       \o Pad2(w.start_date.month) \o <<"-">>
                       \o Pad2(w.start_date.day) \o <<" @ ">>
                       \o Pad2(w.start_time.hour) \o <<":">>
                       \o Pad2(w.start_time.minutes) \o <<":">>
                       \o Pad2(w.start_time.seconds)
                       \o <<" for ", duration.val, " seconds.">>,
                     SeriesID     |-> "MANUAL",
                     ProgramID    |-> <<"MAN", start_time.val>>,
                     Image        |-> w.image_url]])

\* the start, the duration and the stop that start_main_menu and reset
\* display when datetime.now() + timedelta(hours=1) is in_one_hour
initial_times(in_one_hour) ==
    LET initial_start == datetime(date_of(in_one_hour),
                                  [hour    |-> time_of(in_one_hour).hour,
                                   minutes |-> 0, seconds |-> 0]).val
        initial_stop  == dt_add(initial_start, timedelta(0, 30 * 60))
    IN  [start_date |-> date_of(in_one_hour),
         start_time |-> [hour |-> time_of(in_one_hour).hour,
                         minutes |-> 0, seconds |-> 0],
         duration   |-> [hour |-> 0, minutes |-> 30, seconds |-> 0],
         stop_date  |-> date_of(initial_stop),
         stop_time  |-> time_of(initial_stop)]

\* widgets after the assignments of times to its selectors
set_times(w, times) ==
    [k \in DOMAIN w |-> IF k \in DOMAIN times THEN times[k] ELSE w[k]]

----------------------------------------------------------------------------
(* The form: the Connect button and the Schedule button *)

\* the content of the settings file, f'{ip}:{port}'
settings(ip, port) == <<ip, ":", port>>

\* default.split(':')[n] for the content of the settings file
RECURSIVE split(_, _)
split(text, n) ==
    LET colons == {i \in 1..Len(text) : text[i] = ":"}
        cut    == IF colons = {} THEN Len(text) + 1
                  ELSE CHOOSE i \in colons : \A j \in colons : i <= j
    IN  IF n = 0 THEN SubSeq(text, 1, cut - 1)
        ELSE split(SubSeq(text, cut + 1, Len(text)), n - 1)

\* bool(response): None after an exception; otherwise response.ok, which
\* is False for the status codes from 400
response_truthy(response) == response # None /\ response[1] < 400

connected_any_success(response) == response_truthy(response)

\* the test that update_server_status makes on the answer
connected(response) == response_truthy(response) /\ response[1] = 200

\* the Connect button, with the content of the two entries; the server
\* answers with response, None standing for an exception of requests.get
update_server_status(Entries, PortEntries, Responses) ==
    \E ip \in Entries, port \in PortEntries, response \in Responses :
        /\ op' = "update_server_status"
        /\ result' = "None"
        /\ requests' = <<[method |-> "GET", url |-> Url(ip, port) \o <<"/dvr">>]>>
        /\ last_connect' = Some([ip |-> ip, port |-> port, response |-> response])
        /\ IF connected(response)
           THEN /\ status_label' = "Connected"
                /\ server_ip_address' = Some(ip)
                /\ server_port_number' = Some(port)
                /\ controls' = "normal"
                /\ settings_file' = Some(settings(ip, port))
           ELSE /\ status_label' = "Not Connected"
                /\ controls' = "disable"
                /\ UNCHANGED <<server_ip_address, server_port_number, settings_file>>
        /\ UNCHANGED <<library, self, library_files, server,
                       schedule_text, schedule_command, widgets>>

\* a press of the Schedule button while its command is schedule_recording,
\* in a time zone utcoffset seconds east of UTC; an exception of
\* create_json_payload ends the handler before the request; the server
\* answers with a reason, None standing for an exception of requests.post,
\* which leaves the button as it is
schedule_recording(Reasons, UtcOffsets) ==
    /\ controls = "normal"
    /\ schedule_command = "schedule_recording"
    /\ \E reason \in Reasons, utcoffset \in UtcOffsets :
        LET json_payload == create_json_payload(widgets, utcoffset)
        IN  /\ op' = "schedule_recording"
            /\ IF json_payload.exc # ""
               THEN /\ result' = json_payload.exc
                    /\ requests' = << >>
                    /\ UNCHANGED <<schedule_text, schedule_command>>
               ELSE /\ requests' =
                           <<[method |-> "POST",
                              url    |-> Url(server_ip_address[1],
                                             server_port_number[1])
                                         \o <<"/dvr/jobs/new">>,
                              json   |-> json_payload.val]>>
                    /\ IF reason = None
                       THEN /\ result' = "RequestException"
                            /\ UNCHANGED <<schedule_text, schedule_command>>
                       ELSE /\ result' = "None"
                            /\ schedule_text' = reason[1]
                            /\ schedule_command' = "reset"
    /\ UNCHANGED <<library, self, library_files, server, server_ip_address,
                   server_port_number, settings_file, controls, status_label,
                   last_connect, widgets>>

\* a press of the Schedule button while its command is reset, when
\* datetime.now() + timedelta(hours=1) is in_one_hour
reset(Nows) ==
    /\ controls = "normal"
    /\ schedule_command = "reset"
    /\ \E in_one_hour \in Nows :
           widgets' = set_times(widgets, initial_times(in_one_hour))
    /\ op' = "reset"
    /\ result' = "None"
    /\ requests' = << >>
    /\ schedule_text' = "Schedule"
    /\ UNCHANGED <<library, self, library_files, server, server_ip_address,
                   server_port_number, settings_file, controls, status_label,
                   schedule_command, last_connect>>

\* widgets after the user selects value in the selector field of widget
select(w, widget, field, value) == [w EXCEPT ![widget][field] = value]

\* the callback of the selectors of the start and of the duration, after
\* the user selects a value in one of them: the stop becomes the start plus
\* the duration; a start that is no date raises ValueError and leaves the
\* stop as it is
update_stop_date_and_time(DateChoices, TimeChoices) ==
    /\ controls = "normal"
    /\ \E widget \in {"start_date", "start_time", "duration"} :
        LET choices == IF widget = "start_date" THEN DateChoices ELSE TimeChoices
        IN  \E field \in DOMAIN choices : \E value \in choices[field] :
            LET w        == select(widgets, widget, field, value)
                start_dt == datetime(w.start_date, w.start_time)
                duration_dt == timedelta(0, w.duration.hour * 3600
                                            + w.duration.minutes * 60
                                            + w.duration.seconds)
            IN  IF {"start_date", "start_time", "duration", "stop_date",
                    "stop_time"} \subseteq DOMAIN w
                THEN IF start_dt.exc # ""
                     THEN /\ widgets' = w
                          /\ result' = start_dt.exc
                     ELSE LET stop_dt == dt_add(start_dt.val, duration_dt)
                          IN  /\ widgets' =
                                     set_times(w, [stop_date |-> date_of(stop_dt),
                                                   stop_time |-> time_of(stop_dt)])
                              /\ result' = "None"
                ELSE /\ widgets' = w
                     /\ result' = "None"
    /\ op' = "update_stop_date_and_time"
    /\ requests' = << >>
    /\ UNCHANGED <<library, self, library_files, server, server_ip_address,
                   server_port_number, settings_file, controls, status_label,
                   schedule_text, schedule_command, last_connect>>

\* the callback of the selectors of the stop, after the user selects a value
\* in one of them: the duration becomes the one get_duration_in_seconds
\* returns; a start or a stop that is no date raises ValueError and leaves
\* the duration as it is
update_duration(DateChoices, TimeChoices) ==
    /\ controls = "normal"
    /\ \E widget \in {"stop_date", "stop_time"} :
        LET choices == IF widget = "stop_date" THEN DateChoices ELSE TimeChoices
        IN  \E field \in DOMAIN choices : \E value \in choices[field] :
            LET w        == select(widgets, widget, field, value)
                duration == get_duration_in_seconds(w)
            IN  IF duration.exc # ""
                THEN /\ widgets' = w
                     /\ result' = duration.exc
                ELSE /\ widgets' =
                            set_times(w, [duration |->
                                            convert_seconds_to_hms(duration.val)])
                     /\ result' = "None"
    /\ op' = "update_duration"
    /\ requests' = << >>
    /\ UNCHANGED <<library, self, library_files, server, server_ip_address,
                   server_port_number, settings_file, controls, status_label,
                   schedule_text, schedule_command, last_connect>>

IMAGE_URL == "https://tmsimg.fancybits.co/assets/p9467679_st_h6_aa.jpg"

\* the form when start_main_menu enters the main loop, the settings file
\* being absent or left by an earlier run, when
\* datetime.now() + timedelta(hours=1) is in_one_hour
start_main_menu(SettingsFiles, Nows) ==
    /\ settings_file \in SettingsFiles
    /\ server_ip_address =
           IF settings_file = None THEN None ELSE Some(split(settings_file[1], 0)[1])
    /\ server_port_number =
           IF settings_file = None THEN None ELSE Some(split(settings_file[1], 1)[1])
    /\ status_label = "No Connection"
    /\ \E in_one_hour \in Nows :
           widgets = set_times([channel_number |-> "6002",
                                program_name   |-> "Manual Recordings",
                                episode_name   |-> "Manual Recording",
                                image_url      |-> IMAGE_URL,
                                start_date |-> << >>, start_time |-> << >>,
                                duration   |-> << >>, stop_date  |-> << >>,
                                stop_time  |-> << >>],
                               initial_times(in_one_hour))
    /\ schedule_text = "Schedule Manual Recording"
    /\ schedule_command = "schedule_recording"
    /\ controls = "disable"
    /\ last_connect = None

Entries == {LOOPBACK_ADDRESS, "192.168.1.20"}

PortEntries == {DEFAULT_PORT_NUMBER, "8090"}

\* status codes of the answer to Connect, or None for an exception
Responses == {None, Some(200), Some(204), Some(404), Some(500)}

\* reasons of the answer to the POST, or None for an exception
Reasons == {None, Some("OK"), Some("Bad Request")}

SettingsFiles == {None, Some(settings("192.168.1.20", "8090"))}

\* datetime.now() + timedelta(hours=1): 2024-02-28 at 10:25:40
FormNows == { [days |-> ymd2ord(2024, 2, 28), seconds |-> 37540] }

\* the time zone of the machine: UTC-5
FormUtcOffsets == { 0 - 18000 }

InitForm ==
    /\ ServerStart
    /\ start_main_menu(SettingsFiles, FormNows)
    /\ library = << >>
    /\ self = None
    /\ library_files = None
    /\ op = "start_main_menu"
    /\ result = "None"
    /\ requests = << >>

NextForm ==
    \/ update_server_status(Entries, PortEntries, Responses)
    \/ schedule_recording(Reasons, FormUtcOffsets)
    \/ reset(FormNows)

SpecForm == InitForm /\ [][NextForm]_vars

\* C19: whenever the Schedule button shows "Schedule Manual Recording" or
\* "Schedule", its command is schedule_recording, so that the next press
\* issues a POST to /dvr/jobs/new.
C19_ScheduleButtonSchedules ==
    schedule_text \in {"Schedule Manual Recording", "Schedule"}
        => schedule_command = "schedule_recording"

\* C20: the controls are enabled iff the most recent Connect attempt
\* returned the status 200, and while they are enabled the stored
\* server_ip_address and server_port_number are the address of that attempt.
C20_EnabledIffConnected ==
    /\ controls = "normal"
           <=> (last_connect # None /\ last_connect[1].response = Some(200))
    /\ controls = "normal"
           => /\ server_ip_address = Some(last_connect[1].ip)
              /\ server_port_number = Some(last_connect[1].port)

\* a Connect attempt at the loopback address returned 200 and enabled the
\* controls
C20_Witness ==
    /\ op = "update_server_status"
    /\ controls = "normal"
    /\ status_label = "Connected"
    /\ last_connect = Some([ip |-> LOOPBACK_ADDRESS, port |-> "8090",
                            response |-> Some(200)])

----------------------------------------------------------------------------
(* The form: the selectors of the start, the duration and the stop *)

\* values the user selects in the selectors of a date; the selector of the
\* year offers 2023 and 2024
DateChoices == [year |-> {2023, 2024}, month |-> {2, 12}, day |-> {28, 31}]

\* values the user selects in the selectors of a time
TimeChoices == [hour |-> {0, 23}, minutes |-> {0}, seconds |-> {0}]

\* datetime.now() + timedelta(hours=1): 2024-02-28 at 23:10:05
WidgetNows == { [days |-> ymd2ord(2024, 2, 28), seconds |-> 83405] }

InitWidgets ==
    /\ ServerStart
    /\ start_main_menu({None}, WidgetNows)
    /\ library = << >>
    /\ self = None
    /\ library_files = None
    /\ op = "start_main_menu"
    /\ result = "None"
    /\ requests = << >>

NextWidgets ==
    \/ update_server_status({LOOPBACK_ADDRESS}, {DEFAULT_PORT_NUMBER}, {Some(200)})
    \/ update_stop_date_and_time(DateChoices, TimeChoices)
    \/ update_duration(DateChoices, TimeChoices)
    \/ schedule_recording({Some("OK")}, FormUtcOffsets)
    \/ reset(WidgetNows)

SpecWidgets == InitWidgets /\ [][NextWidgets]_vars

\* the start and the stop that the form displays are dates
DisplaysDates ==
    /\ datetime(widgets.start_date, widgets.start_time).exc = ""
    /\ datetime(widgets.stop_date, widgets.stop_time).exc = ""

\* the number of seconds from the start to the stop that the form displays
SecondsFromStartToStop ==
    LET start_dt == datetime(widgets.start_date, widgets.start_time).val
        stop_dt  == datetime(widgets.stop_date, widgets.stop_time).val
    IN  (stop_dt.days - start_dt.days) * 86400 + stop_dt.seconds - start_dt.seconds

\* C21: when the start and the stop selected in the form are dates with
\* start <= stop, the Duration and the Airing.Duration of the recording
\* request are the number of seconds from the start to the stop, also when
\* the stop is one or more days after the start.
C21_DurationIsTotalSeconds ==
    ( /\ op = "schedule_recording"
      /\ DisplaysDates
      /\ SecondsFromStartToStop >= 0 )
    => /\ requests # << >>
       /\ requests[1].json.Duration = SecondsFromStartToStop
       /\ requests[1].json.Airing.Duration = SecondsFromStartToStop

\* C22: in every state of the form in which the start and the stop are
\* dates, the displayed values satisfy stop = start + duration, with a
\* duration from 0:00:00 to 23:59:59.
C22_StopIsStartPlusDuration ==
    DisplaysDates
    => /\ widgets.duration.hour \in 0..23
       /\ widgets.duration.minutes \in 0..59
       /\ widgets.duration.seconds \in 0..59
       /\ SecondsFromStartToStop = widgets.duration.hour * 3600
                                   + widgets.duration.minutes * 60
                                   + widgets.duration.seconds

====
